---- MODULE Spec2Model ----
(***************************************************************************)
(* Model of the photobooth: the montage layout engine of photobooth.py     *)
(* (paste_images, create_montage, capture_images, create_image) and the    *)
(* button/session glue of raspi_photobooth.py (button_handler,             *)
(* run_photobox, photobooth_mutex).                                        *)
(*                                                                         *)
(* An image is represented by its size <<w, h>>; a canvas by its size and  *)
(* the list of rectangles pasted on it.  Python's int(a / b) on the        *)
(* non-negative and negative integers that occur is truncation toward      *)
(* zero, modelled by Trunc; img_w / img_h > width / height is compared by  *)
(* cross multiplication (all four numbers are positive); on the sizes      *)
(* tried here the floating point code computes exactly these integers.     *)
(* The calls into                                                          *)
(* Pillow (Image.open, resize, paste, save) are taken to do what they are  *)
(* documented to do; an exception out of them is a nondeterministic        *)
(* outcome of the session steps below.                                     *)
(***************************************************************************)
EXTENDS Integers, Sequences, FiniteSets, TLC

\* ------------------------------------------------------------------ bounds
\* longest list of image paths handed to create_montage
MaxImages == 10
\* small canvases have sides 3..MaxSide (3: every cell of a 3x3 layout has
\* at least one pixel); they are tried besides the listed sizes
MaxSide == 4
\* number of button presses in one run
MaxPresses == 3

\* ------------------------------------------------------- program constants
None == "None"

\* the value None where an image is expected
NoneImage == [is_none |-> TRUE, size |-> <<0, 0>>, pasted |-> <<>>]

\* capture_images(camera, n_images=4, ...)
n_images == 4

\* PRINTER_RES = (int(3.4 * 800), int(2.3 * 800)); 2.3 * 800 is
\* 1839.9999999999998 in binary floating point, so the height is 1839
PRINTER_RES == <<2720, 1839>>

n_image_layout == (1 :> <<1, 1>>) @@ (4 :> <<2, 2>>) @@ (9 :> <<3, 3>>)

\* ------------------------------------------------------------ input domains
Sides == 3..MaxSide

\* canvases: tiny ones (offset 0) and realistic ones (offset >= 10)
CanvasSizes ==
    (Sides \X Sides)
        \cup {<<1000, 1000>>, <<1000, 100>>, <<1500, 1000>>, <<1000, 1500>>}

\* sizes of the image files
ImageSizes == {<<500, 500>>, <<21, 2>>, <<2, 3>>}

\* sizes of the files the camera delivers
CameraSizes == {<<3, 2>>, <<4, 3>>}

\* layouts paste_images is called with directly
Shapes == (1..3) \X (1..3)

PathLists == UNION {[1..n -> ImageSizes] : n \in 0..MaxImages}

\* ------------------------------------------------------------ paste_images
\* int(a / b) for b > 0: truncation toward zero
Trunc(a, b) == IF a >= 0 THEN a \div b ELSE -((-a) \div b)

\* base_image.rotate(90, expand=True) when cols > rows (wrongly: never)
rotate_never(base, shape) == base

rotate(base, shape) ==
    IF shape[2] > shape[1] THEN <<base[2], base[1]>> ELSE base

offset(width) == Trunc(width, 100)

max_img_w(width, rows) == Trunc(width - (rows + 1) * offset(width), rows)

max_img_h(width, height, cols) ==
    Trunc(height - (cols + 1) * offset(width), cols)

\* the size the image is resized to: the comparison is against the aspect
\* ratio of the whole canvas, width / height
new_size(img, width, height, rows, cols) ==
    LET mw == max_img_w(width, rows)
        mh == max_img_h(width, height, cols)
    IN  IF img[1] * height > width * img[2]
        THEN <<mw, Trunc(mw * img[2], img[1])>>
        ELSE <<Trunc(mh * img[1], img[2]), mh>>

\* a position computed with the row and column index exchanged
pos_swapped(i, width, height, rows, cols) ==
    << offset(width) + (i \div rows) * (max_img_w(width, rows) + offset(width)),
       offset(width) + (i % rows) * (max_img_h(width, height, cols) + offset(width)) >>

\* (pos_x, pos_y) of image i, i counted from 0
pos(i, width, height, rows, cols) ==
    << offset(width) + (i % rows) * (max_img_w(width, rows) + offset(width)),
       offset(width) + (i \div rows) * (max_img_h(width, height, cols) + offset(width)) >>

paste_images(base_image, image_files, shape) ==
    LET rows == shape[1]
        cols == shape[2]
        size == rotate(base_image, shape)
        width == size[1]
        height == size[2]
    IN  [is_none |-> FALSE,
         size |-> size,
         pasted |-> [k \in 1..Len(image_files) |->
                       [at |-> pos(k - 1, width, height, rows, cols),
                        size |-> new_size(image_files[k], width, height, rows, cols)]]]

\* ---------------------------------------------------------- create_montage
\* the result and the calls made on the way
create_montage_any_count(image_files, dims) ==
    LET n == Len(image_files)
        r == CHOOSE r \in 1..(n + 1) : r * r >= n
    IN  [image |-> paste_images(dims, image_files, <<r, r>>),
         calls |-> <<"paste_images">>]

create_montage(image_files, dims) ==
    LET n == Len(image_files)
    IN  IF n \notin DOMAIN n_image_layout
        THEN [image |-> NoneImage, calls |-> <<>>]
        ELSE [image |-> paste_images(dims, image_files, n_image_layout[n]),
              calls |-> <<"paste_images">>]

\* ------------------------------------------------------------ create_image
\* create_image from the point where capture_images has returned
\* image_paths: the montage, the path returned, whether a file was saved
create_image(image_paths, dims) ==
    IF Len(image_paths) < 1
    THEN [image |-> NoneImage, path |-> None, saved |-> FALSE, calls |-> <<>>]
    ELSE LET m == create_montage(image_paths, dims)
         IN  IF m.image.is_none
             THEN [image |-> NoneImage, path |-> None, saved |-> FALSE,
                   calls |-> <<"create_montage">> \o m.calls]
             ELSE [image |-> m.image, path |-> "montage.jpg", saved |-> TRUE,
                   calls |-> <<"create_montage">> \o m.calls \o <<"save">>]

\* ------------------------------------------------------------------- state
VARIABLES
    dimensions,     \* montage engine: size of the base canvas
    paths,          \* montage engine: the image files, each given by its size
    called,         \* montage engine: the function applied, or None
    shape,          \* montage engine: the layout paste_images was called with
    result,         \* montage engine: [image, path, saved, calls] produced
    mutex,          \* photobooth_mutex is locked
    threads,        \* number of run_photobox threads alive
    pc,             \* where the session thread is in run_photobox
    i,              \* capture_images: attempts made
    outcomes,       \* what the camera did at each attempt
    image_paths,    \* capture_images: [attempt, size] of each file saved
    ci,             \* create_image: not_called, running, returned, raised
    path,           \* run_photobox: the value create_image returned
    saved,          \* a montage file was written in this session
    prints,         \* the path arguments of this session's print_image calls
    exc,            \* an exception is propagating out of the try body
    presses,        \* button presses so far
    idle_presses,   \* presses that arrived while no session thread was alive
    started,        \* session threads started so far
    releases        \* photobooth_mutex.release() calls so far

mvars == <<dimensions, paths, called, shape, result>>

\* the state of one session
svars == <<pc, i, outcomes, image_paths, ci, path, saved, prints, exc>>

bvars == <<mutex, threads, svars, presses, idle_presses, started, releases>>

vars == <<mvars, bvars>>

\* -------------------------------------------- the montage engine on its own
MInit ==
    /\ dimensions \in CanvasSizes
    /\ paths \in PathLists
    /\ called = None
    /\ shape = <<0, 0>>
    /\ result = [image |-> NoneImage, path |-> None, saved |-> FALSE,
                 calls |-> <<>>]

\* create_montage(paths, dimensions=dimensions)
CallCreateMontage ==
    /\ called = None
    /\ LET m == create_montage(paths, dimensions)
       IN  result' = [image |-> m.image, path |-> None, saved |-> FALSE,
                      calls |-> m.calls]
    /\ called' = "create_montage"
    /\ UNCHANGED <<dimensions, paths, shape>>
    /\ UNCHANGED bvars

\* paste_images(base_image, paths, shape) on a layout of Len(paths) cells
CallPasteImages ==
    /\ called = None
    /\ \E sh \in Shapes :
        /\ Len(paths) = sh[1] * sh[2]
        /\ result' = [image |-> paste_images(dimensions, paths, sh),
                      path |-> None, saved |-> FALSE, calls |-> <<>>]
        /\ shape' = sh
    /\ called' = "paste_images"
    /\ UNCHANGED <<dimensions, paths>>
    /\ UNCHANGED bvars

\* create_image(dimensions=dimensions) once capture_images, which makes
\* n_images attempts, has returned paths
CallCreateImage ==
    /\ called = None
    /\ Len(paths) <= n_images
    /\ result' = create_image(paths, dimensions)
    /\ called' = "create_image"
    /\ UNCHANGED <<dimensions, paths, shape>>
    /\ UNCHANGED bvars

MNext == CallCreateMontage \/ CallPasteImages \/ CallCreateImage

\* ------------------------------------------------------ the booth: sessions
\* module level of raspi_photobooth.py: the lock is free, no thread runs
BInit ==
    /\ mutex = FALSE
    /\ threads = 0
    /\ pc = "none"
    /\ i = 0
    /\ outcomes = <<>>
    /\ image_paths = <<>>
    /\ ci = "not_called"
    /\ path = None
    /\ saved = FALSE
    /\ prints = <<>>
    /\ exc = FALSE
    /\ presses = 0
    /\ idle_presses = 0
    /\ started = 0
    /\ releases = 0

\* a fresh run_photobox thread, at blink(1)
StartThread ==
    /\ threads' = threads + 1
    /\ started' = started + 1
    /\ pc' = "blink"
    /\ i' = 0
    /\ outcomes' = <<>>
    /\ image_paths' = <<>>
    /\ ci' = "not_called"
    /\ path' = None
    /\ saved' = FALSE
    /\ prints' = <<>>
    /\ exc' = FALSE

\* the handler starts the thread whether or not the lock was acquired
button_handler_no_lock ==
    /\ presses < MaxPresses
    /\ presses' = presses + 1
    /\ idle_presses' = IF threads = 0 THEN idle_presses + 1 ELSE idle_presses
    /\ mutex' = TRUE
    /\ StartThread
    /\ UNCHANGED <<releases>>
    /\ UNCHANGED mvars

\* the handler tests the lock but does not take it
button_handler_no_acquire ==
    /\ presses < MaxPresses
    /\ presses' = presses + 1
    /\ idle_presses' = IF threads = 0 THEN idle_presses + 1 ELSE idle_presses
    /\ IF ~mutex
       THEN StartThread /\ UNCHANGED <<mutex>>
       ELSE UNCHANGED <<mutex, threads, svars, started>>
    /\ UNCHANGED <<releases>>
    /\ UNCHANGED mvars

\* the GPIO callback: acquire(blocking=False), start the thread on success
button_handler ==
    /\ presses < MaxPresses
    /\ presses' = presses + 1
    /\ idle_presses' = IF threads = 0 THEN idle_presses + 1 ELSE idle_presses
    /\ IF ~mutex
       THEN mutex' = TRUE /\ StartThread
       ELSE UNCHANGED <<mutex, threads, svars, started>>
    /\ UNCHANGED <<releases>>
    /\ UNCHANGED mvars

\* run_photobox: blink(1), then create_image is entered
blink_start ==
    /\ pc = "blink"
    /\ pc' = "open_camera"
    /\ ci' = "running"
    /\ UNCHANGED <<mutex, threads, i, outcomes, image_paths, path, saved,
                   prints, exc, presses, idle_presses, started, releases>>
    /\ UNCHANGED mvars

\* create_image: camera = open_camera(); return None when there is none
open_camera ==
    /\ pc = "open_camera"
    /\ \E available \in BOOLEAN :
        IF available
        THEN pc' = "capture" /\ UNCHANGED <<ci, path>>
        ELSE pc' = "check_path" /\ ci' = "returned" /\ path' = None
    /\ UNCHANGED <<mutex, threads, i, outcomes, image_paths, saved, prints,
                   exc, presses, idle_presses, started, releases>>
    /\ UNCHANGED mvars

\* the loop is left at the first failed attempt
capture_images_break ==
    /\ pc = "capture"
    /\ i < n_images
    /\ \E out \in {"ok", "capture_error", "download_error"} :
        /\ outcomes' = Append(outcomes, out)
        /\ IF out = "ok"
           THEN /\ \E size \in CameraSizes :
                    image_paths' =
                        Append(image_paths, [attempt |-> i, size |-> size])
                /\ i' = i + 1
           ELSE /\ image_paths' = image_paths
                /\ i' = n_images
    /\ UNCHANGED <<mutex, threads, pc, ci, path, saved, prints, exc, presses,
                   idle_presses, started, releases>>
    /\ UNCHANGED mvars

\* capture_images: one iteration of the loop; a failed capture or download
\* is logged and the loop continues with the next attempt
capture_images ==
    /\ pc = "capture"
    /\ i < n_images
    /\ \E out \in {"ok", "capture_error", "download_error"} :
        /\ outcomes' = Append(outcomes, out)
        /\ IF out = "ok"
           THEN \E size \in CameraSizes :
                    image_paths' =
                        Append(image_paths, [attempt |-> i, size |-> size])
           ELSE image_paths' = image_paths
    /\ i' = i + 1
    /\ UNCHANGED <<mutex, threads, pc, ci, path, saved, prints, exc, presses,
                   idle_presses, started, releases>>
    /\ UNCHANGED mvars

\* capture_images: the loop is over, camera.exit(), return image_paths
capture_images_return ==
    /\ pc = "capture"
    /\ i = n_images
    /\ pc' = "montage"
    /\ UNCHANGED <<mutex, threads, i, outcomes, image_paths, ci, path, saved,
                   prints, exc, presses, idle_presses, started, releases>>
    /\ UNCHANGED mvars

\* the files captured, as create_montage sees them
captured == [k \in 1..Len(image_paths) |-> image_paths[k].size]

\* create_image after capture_images: the montage is made and saved, or
\* None is returned, or a Pillow call raises
montage ==
    /\ pc = "montage"
    /\ \E raises \in BOOLEAN :
        IF raises /\ Len(image_paths) >= 1
        THEN /\ ci' = "raised"
             /\ exc' = TRUE
             /\ pc' = "finally"
             /\ UNCHANGED <<path, saved>>
        ELSE LET r == create_image(captured, PRINTER_RES)
             IN  /\ ci' = "returned"
                 /\ exc' = FALSE
                 /\ path' = r.path
                 /\ saved' = r.saved
                 /\ pc' = "check_path"
    /\ UNCHANGED <<mutex, threads, i, outcomes, image_paths, prints, presses,
                   idle_presses, started, releases>>
    /\ UNCHANGED mvars

\* run_photobox: if path is not None: print_image(path, PRINTER_MAC),
\* else a warning is logged
check_path ==
    /\ pc = "check_path"
    /\ IF path # None
       THEN /\ prints' = Append(prints, path)
            /\ \E raises \in BOOLEAN :
                /\ exc' = raises
                /\ pc' = IF raises THEN "finally" ELSE "print_image"
       ELSE /\ prints' = prints
            /\ exc' = FALSE
            /\ pc' = "print_image"
    /\ UNCHANGED <<mutex, threads, i, outcomes, image_paths, ci, path, saved,
                   presses, idle_presses, started, releases>>
    /\ UNCHANGED mvars

\* run_photobox: the print_image(path, PRINTER_MAC) after the if/else, then
\* the two blink(0.1); the call returns or raises
print_image ==
    /\ pc = "print_image"
    /\ prints' = Append(prints, path)
    /\ exc' \in BOOLEAN
    /\ pc' = "finally"
    /\ UNCHANGED <<mutex, threads, i, outcomes, image_paths, ci, path, saved,
                   presses, idle_presses, started, releases>>
    /\ UNCHANGED mvars

\* the lock is released only when the body ends without an exception
release_unless_raised ==
    /\ pc = "finally"
    /\ pc' = "none"
    /\ threads' = threads - 1
    /\ IF exc
       THEN UNCHANGED <<mutex, releases>>
       ELSE mutex' = FALSE /\ releases' = releases + 1
    /\ UNCHANGED <<i, outcomes, image_paths, ci, path, saved, prints,
                   exc, presses, idle_presses, started>>
    /\ UNCHANGED mvars

\* run_photobox: finally: mutex.release(); the thread ends
finally ==
    /\ pc = "finally"
    /\ pc' = "none"
    /\ threads' = threads - 1
    /\ mutex' = FALSE
    /\ releases' = releases + 1
    /\ UNCHANGED <<i, outcomes, image_paths, ci, path, saved, prints,
                   exc, presses, idle_presses, started>>
    /\ UNCHANGED mvars

\* the steps of the session thread
run_photobox ==
    \/ blink_start
    \/ open_camera
    \/ capture_images
    \/ capture_images_return
    \/ montage
    \/ check_path
    \/ print_image
    \/ finally

BNext == button_handler \/ run_photobox

\* ---------------------------------------------------------- specifications
\* the montage engine applied to every input, the booth idle
InitMontage == MInit /\ BInit

SpecMontage == InitMontage /\ [][MNext]_vars

\* the inputs the montage engine has when only the booth is looked at
MIdle ==
    /\ dimensions = PRINTER_RES
    /\ paths = <<>>
    /\ called = None
    /\ shape = <<0, 0>>
    /\ result = [image |-> NoneImage, path |-> None, saved |-> FALSE,
                 calls |-> <<>>]

\* button presses interleaved with the steps of the session thread
InitBooth == MIdle /\ BInit

SpecBooth == InitBooth /\ [][BNext]_vars

\* every step of a session terminates: a thread that can step does step
FairBooth == SpecBooth /\ WF_vars(run_photobox)

\* ============================================== properties of the montage
Supported == {1, 4, 9}

\* the result of the call holds a canvas with pasted images
Composed == called # None /\ ~result.image.is_none

\* the layout the call used
UsedShape ==
    IF called = "paste_images" THEN shape ELSE n_image_layout[Len(paths)]

\* cell geometry as the specification states it, on a canvas W x H
CellOffset(W) == W \div 100

MaxCellW(W, rows) == (W - (rows + 1) * CellOffset(W)) \div rows

MaxCellH(W, H, cols) == (H - (cols + 1) * CellOffset(W)) \div cols

\* C1: for every canvas (W, H), supported layout and image size, the size
\* the image is resized to is at most maxCellW wide and maxCellH high.
C1_ResizedFitsCell ==
    (Composed /\ called = "create_montage") =>
        \A k \in 1..Len(paths) :
            /\ result.image.pasted[k].size[1]
                 <= MaxCellW(dimensions[1], UsedShape[1])
            /\ result.image.pasted[k].size[2]
                 <= MaxCellH(dimensions[1], dimensions[2], UsedShape[2])

\* C2: a list whose length is not 1, 4 or 9 makes create_montage return None
\* without a call of paste_images, and create_image then saves nothing and
\* returns no path.
C2_UnsupportedCountFails ==
    (/\ called \in {"create_montage", "create_image"}
     /\ Len(paths) \notin Supported) =>
        /\ result.image.is_none
        /\ \A c \in 1..Len(result.calls) : result.calls[c] # "paste_images"
        /\ result.saved = FALSE
        /\ result.path = None

C2_Witness ==
    /\ called = "create_image"
    /\ Len(paths) = 3
    /\ result.calls = <<"create_montage">>
    /\ result.path = None

\* C5: image i (from 0) is pasted at
\*   (offset + (i mod rows) * (maxCellW + offset),
\*    offset + (i div rows) * (maxCellH + offset));
\* four 500x500 images on a 1000x1000 canvas are resized to 485x485 and
\* pasted at (10,10), (505,10), (10,505), (505,505).
C5_Placement ==
    /\ Composed =>
        LET W == result.image.size[1]
            H == result.image.size[2]
            rows == UsedShape[1]
            cols == UsedShape[2]
        IN  \A k \in 1..Len(paths) :
                result.image.pasted[k].at =
                    << CellOffset(W)
                         + ((k - 1) % rows) * (MaxCellW(W, rows) + CellOffset(W)),
                       CellOffset(W)
                         + ((k - 1) \div rows) * (MaxCellH(W, H, cols) + CellOffset(W)) >>
    /\ (/\ called = "create_montage"
        /\ dimensions = <<1000, 1000>>
        /\ paths = <<<<500, 500>>, <<500, 500>>, <<500, 500>>, <<500, 500>>>>) =>
            result.image.pasted =
                << [at |-> <<10, 10>>, size |-> <<485, 485>>],
                   [at |-> <<505, 10>>, size |-> <<485, 485>>],
                   [at |-> <<10, 505>>, size |-> <<485, 485>>],
                   [at |-> <<505, 505>>, size |-> <<485, 485>>] >>

C5_Witness ==
    /\ called = "create_montage"
    /\ dimensions = <<1000, 1000>>
    /\ paths = <<<<500, 500>>, <<500, 500>>, <<500, 500>>, <<500, 500>>>>
    /\ result.image.pasted[4].at = <<505, 505>>

\* C7: paste_images on rows*cols images returns a canvas of the input size
\* (W, H) when cols <= rows and (H, W) when cols > rows; create_montage on
\* 1, 4 or 9 images returns a canvas of exactly the input size.
C7_CanvasSize ==
    /\ called = "paste_images" =>
        /\ ~result.image.is_none
        /\ result.image.size =
             IF shape[2] <= shape[1]
             THEN dimensions
             ELSE <<dimensions[2], dimensions[1]>>
    /\ (called = "create_montage" /\ Len(paths) \in Supported) =>
        /\ ~result.image.is_none
        /\ result.image.size = dimensions

C7_Witness ==
    /\ called = "paste_images"
    /\ shape = <<1, 2>>
    /\ dimensions = <<1500, 1000>>
    /\ result.image.size = <<1000, 1500>>

\* C10: the rectangles of the pasted images lie inside the canvas and no
\* two of them intersect.
C10_InsideAndDisjoint ==
    (Composed /\ called = "create_montage") =>
        LET r == result.image.pasted
            L(k) == r[k].at[1]
            T(k) == r[k].at[2]
            R(k) == r[k].at[1] + r[k].size[1]
            B(k) == r[k].at[2] + r[k].size[2]
        IN  /\ \A k \in 1..Len(r) :
                /\ L(k) >= 0 /\ T(k) >= 0
                /\ R(k) <= dimensions[1] /\ B(k) <= dimensions[2]
            /\ \A j, k \in 1..Len(r) :
                j < k => \/ R(j) <= L(k) \/ R(k) <= L(j)
                         \/ B(j) <= T(k) \/ B(k) <= T(j)

\* ================================================ properties of the booth
\* C3: at most one session is in flight: never two run_photobox threads
\* alive, and photobooth_mutex is held exactly while a session thread is
\* started and not yet finished.
C3_OneSessionInFlight ==
    /\ threads <= 1
    /\ mutex <=> (threads = 1)
    /\ (threads = 1) <=> (pc # "none")

C3_Witness ==
    /\ presses >= 2
    /\ started = 1
    /\ threads = 1
    /\ mutex

\* C4: a press that arrives while a session is active is dropped: it starts
\* no thread, now or later, and the sessions started are as many as the
\* presses that arrived while no session was active.
C4_BusyPressDropped ==
    /\ [](started = idle_presses)
    /\ [][(presses' = presses + 1 /\ threads = 1) =>
            (started' = started /\ threads' = threads /\ svars' = svars
             /\ mutex' = mutex)]_vars
    /\ [][started' # started =>
            (presses' = presses + 1 /\ threads = 0 /\ started' = started + 1)]_vars

C4_Witness ==
    /\ presses = 3
    /\ idle_presses = 2
    /\ started = 2
    /\ pc = "none"

\* the attempts whose outcome was "ok", in order
RECURSIVE OkAttempts(_)
OkAttempts(n) ==
    IF n = 0 THEN <<>>
    ELSE IF outcomes[n] = "ok"
         THEN Append(OkAttempts(n - 1), n - 1)
         ELSE OkAttempts(n - 1)

\* capture_images has returned in this session
Captured == i = n_images /\ pc # "capture"

\* C6: with failures at capture or download, capture_images still makes
\* all 4 attempts and returns one path per successful attempt, in attempt
\* order; create_image saves a montage and returns its path exactly when 1
\* or 4 captures succeeded.
C6_CaptureFailuresSkipped ==
    /\ Len(image_paths) = Len(OkAttempts(Len(outcomes)))
    /\ \A k \in 1..Len(image_paths) :
           image_paths[k].attempt = OkAttempts(Len(outcomes))[k]
    /\ Captured => Len(outcomes) = 4
    /\ (Captured /\ ci = "returned") =>
        /\ saved <=> (Len(image_paths) \in {1, 4})
        /\ (path # None) <=> (Len(image_paths) \in {1, 4})

C6_Witness ==
    /\ ci = "returned"
    /\ outcomes = <<"capture_error", "ok", "download_error", "ok">>
    /\ Len(image_paths) = 2
    /\ image_paths[1].attempt = 1
    /\ image_paths[2].attempt = 3
    /\ path = None
    /\ ~saved

\* C8: in a session print_image is called at most once, and only when
\* create_image returned a montage path.
C8_PrintOnlyMontageOnce ==
    /\ Len(prints) <= 1
    /\ prints # <<>> => (ci = "returned" /\ path # None)

\* C9: every session that starts releases photobooth_mutex, exactly once,
\* also when create_image or print_image returns None or raises; after a
\* session a button press starts a new one.
C9_MutexAlwaysReleased ==
    /\ [](started = releases + threads)
    /\ [][releases' # releases =>
            (releases' = releases + 1 /\ pc = "finally" /\ mutex /\ ~mutex')]_vars
    /\ (pc # "none") ~> (pc = "none" /\ ~mutex)
    /\ [][(presses' = presses + 1 /\ pc = "none") =>
            (started' = started + 1 /\ pc' = "blink")]_vars

C9_Witness ==
    /\ ci = "raised"
    /\ exc
    /\ pc = "none"
    /\ ~mutex
    /\ started = 2
    /\ releases = 2

====
